---- MODULE Spec2Model ----
(***************************************************************************)
(* Model of FederatedLearning (src/core/federated_learning.py): one        *)
(* coordinator object, its client models, the worker threads of            *)
(* async_train_clients, the aggregation strategies, the early-stopping     *)
(* counters and the checkpoint files.                                      *)
(*                                                                         *)
(* A tensor is modelled by one element (every operation of the code is     *)
(* elementwise); an element is a rational <<n, d>> in lowest terms, d > 0, *)
(* and <<0, 0>> is NaN, <<1, 0>> / <<-1, 0>> are +inf / -inf (numpy's      *)
(* results of a division by zero).                                         *)
(***************************************************************************)
EXTENDS Integers, Sequences, FiniteSets, TLC

(* ------------------------------ bounds --------------------------------- *)
MaxSamples == 1      \* largest len(data) of one client's dataset
MaxPatience == 2     \* largest patience given to the constructor
MaxEpochs == 1       \* largest `epochs` argument of a round
MaxRounds == 3       \* calls of global_training_round in SpecRounds
MaxClientData == 9    \* largest len(client_data) given to robust_client_selection
RatioSteps == 4       \* selection_ratio is one of 0, 1/RatioSteps, ..., 1
MaxCheckpointRounds == 1   \* calls of global_training_round in SpecCheckpoints

Clients == {1, 2}                 \* indices of self.client_models
NClients == Cardinality(Clients)
MaxData == NClients + 1           \* train_data may be longer than client_models
ParamKeys == {"w"}                \* parameter names of the global model
AllKeys == {"w", "x"}             \* "x": a parameter the global model lacks
TrainVals == {1, 2}               \* element values a client's train() may leave
Noise == {0, 1}                   \* noise samples (scaled)
Losses == {5, 6, 7}               \* validation losses, in tenths
Methods == {"average", "median", "weighted_average", "bogus"}

(* --------------------------- rational elements ------------------------- *)
Abs(n) == IF n < 0 THEN -n ELSE n
Sign(n) == IF n < 0 THEN -1 ELSE IF n > 0 THEN 1 ELSE 0

RECURSIVE GCD(_, _)
GCD(a, b) == IF b = 0 THEN a ELSE GCD(b, a % b)

NaN == <<0, 0>>
IsFinite(a) == a[2] # 0
RNorm(n, d) ==
    IF d = 0 THEN <<Sign(n), 0>>
    ELSE LET g == GCD(Abs(n), d) IN <<n \div g, d \div g>>
RInt(n) == <<n, 1>>
RAdd(a, b) ==
    IF IsFinite(a) /\ IsFinite(b) THEN RNorm(a[1] * b[2] + b[1] * a[2], a[2] * b[2])
    ELSE IF IsFinite(a) THEN b
    ELSE IF IsFinite(b) THEN a
    ELSE IF a = b THEN a ELSE NaN
RMulInt(a, k) ==
    IF IsFinite(a) THEN RNorm(a[1] * k, a[2])
    ELSE <<Sign(a[1] * k), 0>>
RDivInt(a, k) ==
    IF ~IsFinite(a) THEN <<Sign(a[1] * k), 0>>
    ELSE IF k = 0 THEN <<Sign(a[1]), 0>>
    ELSE RNorm(a[1] * Sign(k), a[2] * Abs(k))
RLess(a, b) == a[1] * b[2] < b[1] * a[2]

(* ------------------------- sequences of elements ----------------------- *)
Min(a, b) == IF a < b THEN a ELSE b

\* Python's sum(): starts from 0 and adds left to right.
RECURSIVE RSum(_)
RSum(s) == IF s = <<>> THEN RInt(0) ELSE RAdd(RSum(SubSeq(s, 1, Len(s) - 1)), s[Len(s)])

RECURSIVE IntSum(_)
IntSum(s) == IF s = <<>> THEN 0 ELSE IntSum(SubSeq(s, 1, Len(s) - 1)) + s[Len(s)]

RECURSIVE Insert(_, _)
Insert(sorted, x) ==
    IF sorted = <<>> THEN <<x>>
    ELSE IF RLess(x, sorted[1]) THEN <<x>> \o sorted
    ELSE <<sorted[1]>> \o Insert(Tail(sorted), x)

RECURSIVE SortElems(_)
SortElems(s) == IF s = <<>> THEN <<>> ELSE Insert(SortElems(Tail(s)), s[1])

\* Mutant: the sum is divided by one less than the count.
MeanSample(s) == RDivInt(RSum(s), Len(s) - 1)

\* np.mean(values, axis=0)
Mean(s) == RDivInt(RSum(s), Len(s))

\* Mutant: the middle of the list as it arrived, without sorting.
MedianUnsorted(s) ==
    LET n == Len(s)
    IN IF n % 2 = 1 THEN s[(n + 1) \div 2]
       ELSE RDivInt(RAdd(s[n \div 2], s[n \div 2 + 1]), 2)

\* Mutant: for an even count the upper of the two middle values.
MedianUpper(s) == SortElems(s)[Len(s) \div 2 + 1]

\* np.median(values, axis=0)
Median(s) ==
    LET sorted == SortElems(s)
        n == Len(s)
    IN IF n % 2 = 1 THEN sorted[(n + 1) \div 2]
       ELSE RDivInt(RAdd(sorted[n \div 2], sorted[n \div 2 + 1]), 2)

(* ------------------------------ updates -------------------------------- *)
\* A client update {"weights": ..., "num_samples": ...}; the field client is
\* not in the code's dict: it records which task built the update.
Update(w, n, i) == [weights |-> w, num_samples |-> n, client |-> i]

\* [update["weights"][key] for update in client_updates]
Column(updates, key) == [j \in 1..Len(updates) |-> updates[j].weights[key]]

\* update["weights"][key] raises KeyError for some key of the first update
MissingKey(updates) ==
    \E key \in DOMAIN updates[1].weights :
        \E j \in 1..Len(updates) : key \notin DOMAIN updates[j].weights

\* The outcome of a call that may raise: the exception ("none" when it returns),
\* whether global_model.set_weights was called, and with which mapping.
Raised(e) == [err |-> e, set |-> FALSE, weights |-> <<>>]
SetTo(w) == [err |-> "none", set |-> TRUE, weights |-> w]

_average_aggregation(updates) ==
    IF updates = <<>> THEN Raised("IndexError")
    ELSE IF MissingKey(updates) THEN Raised("KeyError")
    ELSE SetTo([key \in DOMAIN updates[1].weights |-> Mean(Column(updates, key))])

_median_aggregation(updates) ==
    IF updates = <<>> THEN Raised("IndexError")
    ELSE IF MissingKey(updates) THEN Raised("KeyError")
    ELSE SetTo([key \in DOMAIN updates[1].weights |-> Median(Column(updates, key))])

\* Mutant: the terms are divided by the number of updates.
_weighted_average_by_count(updates) ==
    LET term(j, key) ==
            RDivInt(RMulInt(updates[j].weights[key], updates[j].num_samples), Len(updates))
    IN IF updates = <<>> THEN Raised("IndexError")
       ELSE IF MissingKey(updates) THEN Raised("KeyError")
       ELSE SetTo([key \in DOMAIN updates[1].weights |->
                      RSum([j \in 1..Len(updates) |-> term(j, key)])])

_weighted_average_aggregation(updates) ==
    LET total_samples == IntSum([j \in 1..Len(updates) |-> updates[j].num_samples])
        term(j, key) ==
            RDivInt(RMulInt(updates[j].weights[key], updates[j].num_samples), total_samples)
    IN IF updates = <<>> THEN Raised("IndexError")
       ELSE IF MissingKey(updates) THEN Raised("KeyError")
       ELSE SetTo([key \in DOMAIN updates[1].weights |->
                      RSum([j \in 1..Len(updates) |-> term(j, key)])])

\* update["weights"][key] += noise, for every key of every update; noise[j][key]
\* is the sample drawn for update j's tensor key.
_secure_aggregation(updates, noise) ==
    [j \in 1..Len(updates) |->
        [updates[j] EXCEPT !.weights =
            [key \in DOMAIN updates[j].weights |->
                RAdd(updates[j].weights[key], RInt(noise[j][key]))]]]

\* Mutant: the emptiness check is left out.
EmptyUpdatesUnchecked(updates) == FALSE

\* `if not client_updates`
EmptyUpdates(updates) == updates = <<>>

\* aggregate_updates: the outcome, the update list as the call leaves it (the
\* noise is added in place) and whether the noise step ran.
aggregate_updates(method, secure, updates, noise) ==
    IF EmptyUpdates(updates)
    THEN [out |-> Raised("ValueError_empty"), updates |-> updates, noised |-> FALSE]
    ELSE LET noisy == IF secure THEN _secure_aggregation(updates, noise) ELSE updates
             out == CASE method = "average" -> _average_aggregation(noisy)
                      [] method = "median" -> _median_aggregation(noisy)
                      [] method = "weighted_average" -> _weighted_average_aggregation(noisy)
                      [] OTHER -> Raised("ValueError_method")
         IN [out |-> out, updates |-> noisy, noised |-> secure]

(* ------------------------------- state --------------------------------- *)
VARIABLES
    \* constructor arguments (never assigned again)
    aggregation_method, patience, secure_aggregation,
    \* the models' weights
    global_model, client_models,
    \* early stopping and checkpoint files (keyed by the number in the file name)
    best_loss, epochs_without_improvement, checkpoints,
    \* one call of global_training_round
    pc, train_data, epochs, validation_data, client_updates, threads, started, val_loss,
    \* observations of the call in progress (not fields of the object)
    rounds, raised, stopped, global_before, best_before, set_calls, noise_ran,
    ckpt_written, hist,
    \* a call of global_training_round made by another thread of the application
    \* on the same object: its position and its locals
    other,
    \* the public method called last, the value the last call returned, and the
    \* global weights at the moment save_checkpoint(epoch) last ran for each epoch
    \* (observations, not fields of the object)
    called, returned, saved_weights

config == <<aggregation_method, patience, secure_aggregation>>
models == <<global_model, client_models>>
stopping == <<best_loss, epochs_without_improvement, checkpoints>>
call == <<pc, train_data, epochs, validation_data, client_updates, threads, started, val_loss>>
observed == <<rounds, raised, stopped, global_before, best_before, set_calls, noise_ran,
              ckpt_written, hist>>
api == <<called, returned, saved_weights>>
vars == <<config, models, stopping, call, observed, other, api>>

Inf == <<1, 0>>
InitialWeights == [key \in ParamKeys |-> RInt(0)]

\* Weights of a client model as it is handed to the constructor
ClientStart == {[key \in ParamKeys |-> RInt(v)] : v \in {0} \cup TrainVals}

\* Weight mappings a client model may hold after train(): the global model's
\* parameters, a mapping that lacks one, a mapping with one more.
TrainResults ==
    {[key \in ParamKeys |-> RInt(v)] : v \in TrainVals}
    \cup {[key \in {} |-> RInt(1)], [key \in AllKeys |-> RInt(1)]}

\* train_data: a list of datasets, each known by its len()
TrainData == UNION {[1..n -> 0..MaxSamples] : n \in 0..MaxData}

\* One noise sample for every tensor of every update
NoiseDraws(updates) ==
    [1..Len(updates) ->
        [UNION {DOMAIN updates[j].weights : j \in 1..Len(updates)} -> Noise]]

\* Python's None, which a method without a return value returns, and the mark of
\* a call that has not returned (it is in progress, or it raised)
None == [type |-> "NoneType"]
NoReturn == [type |-> "no value"]

\* A call of a public method: its name and its epoch argument (0 when it has none)
Call(method, epoch) == [op |-> method, epoch |-> epoch]

\* The weights recorded for save_checkpoint(epoch)
Recorded(saved, epoch, weights) ==
    [e \in DOMAIN saved \cup {epoch} |-> IF e = epoch THEN weights ELSE saved[e]]

\* No other call is in progress.
NoCall == [pc |-> "idle", client_updates |-> <<>>, validation_data |-> FALSE]

Init ==
    /\ aggregation_method \in Methods
    /\ patience \in 0..MaxPatience
    /\ secure_aggregation \in BOOLEAN
    /\ global_model = InitialWeights
    /\ client_models \in [Clients -> ClientStart]
    /\ best_loss = Inf
    /\ epochs_without_improvement = 0
    /\ checkpoints = <<>>
    /\ pc = "idle"
    /\ train_data = <<>>
    /\ epochs = 1
    /\ validation_data = FALSE
    /\ client_updates = <<>>
    /\ threads = [i \in Clients |-> "unstarted"]
    /\ started = 0
    /\ val_loss = NaN
    /\ rounds = 0
    /\ raised = "none"
    /\ stopped = FALSE
    /\ global_before = InitialWeights
    /\ best_before = Inf
    /\ set_calls = 0
    /\ noise_ran = FALSE
    /\ ckpt_written = FALSE
    /\ hist = <<>>
    /\ other = NoCall
    /\ called = Call("none", 0)
    /\ returned = NoReturn
    /\ saved_weights = <<>>

(* ----------------------- global_training_round ------------------------- *)
\* Mutant: the loop ends after the first client.
distribute_model_first(g) == [i \in Clients |-> IF i = 1 THEN g ELSE client_models[i]]

\* distribute_model: client_model.set_weights(self.global_model.get_weights())
distribute_model(g) == [i \in Clients |-> g]

\* Mutant: the last pair of the zip is left out.
NTasksButLast(data) == IF data = <<>> THEN 0 ELSE Min(NClients, Len(data)) - 1

\* zip(self.client_models, train_data): one task per pair
NTasks(data) == Min(NClients, Len(data))

\* The call begins: its arguments, distribute_model(), and the locals of
\* async_train_clients.
BeginRound(data, ep, vd) ==
    /\ pc = "idle"
    /\ train_data' = data
    /\ epochs' = ep
    /\ validation_data' = vd
    /\ client_models' = distribute_model(global_model)
    /\ client_updates' = <<>>
    /\ threads' = [i \in Clients |-> "unstarted"]
    /\ started' = 0
    /\ val_loss' = NaN
    /\ pc' = "train"
    /\ rounds' = rounds + 1
    /\ raised' = "none"
    /\ stopped' = FALSE
    /\ global_before' = global_model
    /\ best_before' = best_loss
    /\ set_calls' = 0
    /\ noise_ran' = FALSE
    /\ ckpt_written' = FALSE
    /\ called' = Call("global_training_round", 0)
    /\ returned' = NoReturn
    /\ UNCHANGED <<config, other, global_model, stopping, hist, saved_weights>>

\* Spec follows the coordinator's first call thread by thread.
StartRound ==
    /\ rounds = 0
    /\ \E data \in TrainData, ep \in 1..MaxEpochs, vd \in BOOLEAN : BeginRound(data, ep, vd)

\* thread.start() for the next pair of the zip
StartThread ==
    /\ pc = "train"
    /\ started < NTasks(train_data)
    /\ started' = started + 1
    /\ threads' = [threads EXCEPT ![started + 1] = "train"]
    /\ UNCHANGED <<config, other, api, models, stopping, pc, train_data, epochs, validation_data,
                   client_updates, val_loss, observed>>

\* Mutant: the client's weights are the global model's own storage, so train()
\* writes both.
TrainReturnsShared(i) ==
    /\ threads[i] = "train"
    /\ \E w \in TrainResults :
          /\ client_models' = [client_models EXCEPT ![i] = w]
          /\ global_model' = w
    /\ threads' = [threads EXCEPT ![i] = "trained"]
    /\ UNCHANGED <<config, other, api, stopping, pc, train_data, epochs, validation_data,
                   client_updates, started, val_loss, observed>>

\* Mutant: every entry of client_models is one model object, so a task's train()
\* writes the weights of all clients.
TrainReturnsAliased(i) ==
    /\ threads[i] = "train"
    /\ \E w \in TrainResults : client_models' = [j \in Clients |-> w]
    /\ threads' = [threads EXCEPT ![i] = "trained"]
    /\ UNCHANGED <<config, other, api, global_model, stopping, pc, train_data, epochs,
                   validation_data, client_updates, started, val_loss, observed>>

\* _train_client: client_model.train(data, epochs) returns
TrainReturns(i) ==
    /\ threads[i] = "train"
    /\ \E w \in TrainResults : client_models' = [client_models EXCEPT ![i] = w]
    /\ threads' = [threads EXCEPT ![i] = "trained"]
    /\ UNCHANGED <<config, other, api, global_model, stopping, pc, train_data, epochs,
                   validation_data, client_updates, started, val_loss, observed>>

\* client_model.train raises: the thread ends, nothing is appended
TrainRaises(i) ==
    /\ threads[i] = "train"
    /\ threads' = [threads EXCEPT ![i] = "train_raised"]
    /\ UNCHANGED <<config, other, api, models, stopping, pc, train_data, epochs, validation_data,
                   client_updates, started, val_loss, observed>>

\* client_model.train never returns
TrainHangs(i) ==
    /\ threads[i] = "train"
    /\ threads' = [threads EXCEPT ![i] = "hung"]
    /\ UNCHANGED <<config, other, api, models, stopping, pc, train_data, epochs, validation_data,
                   client_updates, started, val_loss, observed>>

\* Mutant: an append that writes at a stale length, over the last element.
ListAppendStale(list, update) ==
    IF list = <<>> THEN <<update>> ELSE [list EXCEPT ![Len(list)] = update]

\* client_updates.append(update): one bytecode-atomic list operation
ListAppend(list, update) == Append(list, update)

\* _train_client after train(): build the update and append it
AppendUpdate(i) ==
    /\ threads[i] = "trained"
    /\ client_updates' =
           ListAppend(client_updates, Update(client_models[i], train_data[i], i))
    /\ threads' = [threads EXCEPT ![i] = "done"]
    /\ UNCHANGED <<config, other, api, models, stopping, pc, train_data, epochs, validation_data,
                   started, val_loss, observed>>

\* client_model.get_weights() (or len(data)) raises: the thread ends
GetWeightsRaises(i) ==
    /\ threads[i] = "trained"
    /\ threads' = [threads EXCEPT ![i] = "get_weights_raised"]
    /\ UNCHANGED <<config, other, api, models, stopping, pc, train_data, epochs, validation_data,
                   client_updates, started, val_loss, observed>>

\* Mutant: a thread that ended by an exception is never joined.
JoinedOnlyDone(state) == state = "done"

\* Mutant: join returns while the thread is still running.
JoinedNoWait(state) == state # "unstarted"

\* thread.join() returns for a thread that has ended, normally or by an exception
Joined(state) == state \in {"done", "train_raised", "get_weights_raised"}

\* `for thread in threads: thread.join()` and the return of client_updates
JoinThreads ==
    /\ pc = "train"
    /\ started = NTasks(train_data)
    /\ \A i \in 1..started : Joined(threads[i])
    /\ pc' = "aggregate"
    /\ UNCHANGED <<config, other, api, models, stopping, train_data, epochs, validation_data,
                   client_updates, threads, started, val_loss, observed>>

\* Mutant: the model is evaluated whether or not validation data was given.
EvaluatesAlways(err, vd) == err = "none"

\* `if validation_data:`, reached when aggregate_updates has returned
Evaluates(err, vd) == err = "none" /\ vd

\* self.aggregate_updates(client_updates); an exception ends the call, and so
\* does a missing validation_data. The locals of async_train_clients are not read
\* again.
Aggregate ==
    /\ pc = "aggregate"
    /\ \E noise \in NoiseDraws(client_updates) :
        LET r == aggregate_updates(aggregation_method, secure_aggregation,
                                   client_updates, noise)
        IN /\ noise_ran' = r.noised
           /\ raised' = r.out.err
           /\ global_model' = IF r.out.set THEN r.out.weights ELSE global_model
           /\ set_calls' = IF r.out.set THEN set_calls + 1 ELSE set_calls
           /\ pc' = IF Evaluates(r.out.err, validation_data) THEN "validate" ELSE "idle"
           /\ returned' = IF r.out.err = "none" /\ ~Evaluates(r.out.err, validation_data)
                          THEN None ELSE returned
    /\ train_data' = <<>>
    /\ client_updates' = <<>>
    /\ threads' = [i \in Clients |-> "unstarted"]
    /\ UNCHANGED <<config, other, client_models, stopping, epochs, validation_data, started,
                   val_loss, rounds, stopped, global_before,
                   best_before, ckpt_written, hist, called, saved_weights>>

\* Mutant: the comparison is the wrong way round.
ImprovedReversed(loss, best) == RLess(best, loss)

\* Mutant: an equal loss counts as an improvement.
ImprovedOrEqual(loss, best) == ~RLess(best, loss)

\* `val_loss < self.best_loss`
Improved(loss, best) == RLess(loss, best)

\* Mutant: the weights from before the round's aggregation are saved.
save_checkpoint_stale(files, epoch, weights) ==
    [e \in DOMAIN files \cup {epoch} |-> IF e = epoch THEN global_before ELSE files[e]]

\* Mutant: a file that is there already is kept.
save_checkpoint_keep(files, epoch, weights) ==
    [e \in DOMAIN files \cup {epoch} |-> IF e \in DOMAIN files THEN files[e] ELSE weights]

\* save_checkpoint(epoch): global_model.save(".../checkpoint_epoch_{epoch}.h5")
save_checkpoint(files, epoch, weights) ==
    [e \in DOMAIN files \cup {epoch} |-> IF e = epoch THEN weights ELSE files[e]]

\* Mutant: one more stalled round is needed.
PatienceExceeded(count, limit) == count > limit

\* `self.epochs_without_improvement >= self.patience`
PatienceSpent(count, limit) == count >= limit

\* evaluate_model and the early-stopping branch
Validate ==
    /\ pc = "validate"
    /\ \E l \in Losses :
        LET loss == RInt(l) IN
        /\ val_loss' = loss
        /\ hist' = Append(hist, l)
        /\ IF Improved(loss, best_loss)
           THEN /\ best_loss' = loss
                /\ epochs_without_improvement' = 0
                /\ checkpoints' = save_checkpoint(checkpoints, epochs, global_model)
                /\ saved_weights' = Recorded(saved_weights, epochs, global_model)
                /\ ckpt_written' = TRUE
                /\ stopped' = FALSE
           ELSE /\ epochs_without_improvement' = epochs_without_improvement + 1
                /\ stopped' = PatienceSpent(epochs_without_improvement + 1, patience)
                /\ UNCHANGED <<best_loss, checkpoints, ckpt_written, saved_weights>>
    /\ pc' = "idle"
    /\ returned' = None
    /\ UNCHANGED <<config, other, models, train_data, epochs, validation_data, client_updates,
                   threads, started, rounds, raised, global_before, best_before,
                   set_calls, noise_ran, called>>

Next ==
    \/ StartRound
    \/ StartThread
    \/ \E i \in Clients : TrainReturns(i)
    \/ \E i \in Clients : TrainRaises(i)
    \/ \E i \in Clients : TrainHangs(i)
    \/ \E i \in Clients : AppendUpdate(i)
    \/ \E i \in Clients : GetWeightsRaises(i)
    \/ JoinThreads
    \/ Aggregate
    \/ Validate

Spec == Init /\ [][Next]_vars

(* ------------------- rounds as whole calls (SpecRounds) ---------------- *)
\* The injective sequences over S: the orders in which the tasks of S append.
Orders(S) ==
    {o \in [1..Cardinality(S) -> S] : \A a, b \in DOMAIN o : o[a] = o[b] => a = b}

\* How one task's thread ends, and the weights train() left in its model: the
\* task appends its update, train() raises, or train() never returns. Here train()
\* leaves the global model's parameter names in place.
TaskEnds ==
    [thread : {"done"}, trained : {TRUE},
     weights : {[key \in ParamKeys |-> RInt(v)] : v \in TrainVals}]
    \cup [thread : {"train_raised", "hung"}, trained : {FALSE}, weights : {InitialWeights}]

\* train_data of a whole-call round: no dataset, or one sample for every client
RoundData == {<<>>, [i \in Clients |-> 1]}

\* The coordinators followed over several rounds are built with
\* secure_aggregation=False.
InitRounds == Init /\ ~secure_aggregation

CallRound ==
    /\ rounds < MaxRounds
    /\ \E data \in RoundData, ep \in 1..MaxEpochs, vd \in BOOLEAN : BeginRound(data, ep, vd)

\* async_train_clients from the first thread.start() to the last thread.join():
\* every task runs to its end, the finished tasks append in some order, and the
\* call goes on unless a thread never ends.
TrainClients ==
    /\ pc = "train"
    /\ started = 0
    /\ \E ends \in [1..NTasks(train_data) -> TaskEnds] :
        LET done == {i \in DOMAIN ends : ends[i].thread = "done"} IN
        \E order \in Orders(done) :
            /\ started' = NTasks(train_data)
            /\ threads' = [i \in Clients |->
                              IF i \in DOMAIN ends THEN ends[i].thread ELSE threads[i]]
            /\ client_models' = [i \in Clients |->
                                    IF i \in DOMAIN ends /\ ends[i].trained
                                    THEN ends[i].weights ELSE client_models[i]]
            /\ client_updates' = [j \in 1..Cardinality(done) |->
                                     Update(ends[order[j]].weights, train_data[order[j]],
                                            order[j])]
            /\ pc' = IF \A i \in DOMAIN ends : Joined(ends[i].thread)
                     THEN "aggregate" ELSE "train"
    /\ UNCHANGED <<config, other, api, global_model, stopping, train_data, epochs, validation_data,
                   val_loss, observed>>

NextRounds ==
    \/ CallRound
    \/ TrainClients
    \/ Aggregate
    \/ Validate

SpecRounds == InitRounds /\ [][NextRounds]_vars

(* --------------- aggregate_updates called directly (SpecAggregate) ----- *)
\* Element values of the updates handed to aggregate_updates
AggVals == {1, 2, 3, 4, 100}
MaxUpdates == Cardinality(AggVals)

\* num_samples of the update that carries value v: the same count for every
\* update, or counts that differ with the value
SamplePatterns ==
    {[v \in AggVals |-> n] : n \in 0..MaxSamples}
    \cup {[v \in AggVals |-> (v + d) % (MaxSamples + 1)] : d \in 0..1}

\* The lists of updates over the global model's parameter names, in every order
UpdateLists ==
    UNION {{[j \in 1..len |->
                Update([key \in ParamKeys |-> RInt(vals[j])], ns[vals[j]], j)] :
               vals \in [1..len -> AggVals], ns \in SamplePatterns} : len \in 0..MaxUpdates}

InitAggregate ==
    /\ Init
    /\ ~secure_aggregation
    /\ patience = MaxPatience
    /\ client_models = [i \in Clients |-> InitialWeights]

\* One call aggregate_updates(updates) on a new coordinator; client_updates is the
\* caller's list as the call leaves it.
CallAggregate ==
    /\ pc = "idle"
    /\ rounds = 0
    /\ set_calls = 0
    /\ raised = "none"
    /\ \E updates \in UpdateLists :
        \E noise \in IF secure_aggregation THEN NoiseDraws(updates) ELSE {<<>>} :
            LET r == aggregate_updates(aggregation_method, secure_aggregation, updates, noise)
            IN /\ client_updates' = r.updates
               /\ noise_ran' = r.noised
               /\ raised' = r.out.err
               /\ global_model' = IF r.out.set THEN r.out.weights ELSE global_model
               /\ set_calls' = IF r.out.set THEN set_calls + 1 ELSE set_calls
               /\ returned' = IF r.out.err = "none" THEN None ELSE NoReturn
    /\ global_before' = global_model
    /\ called' = Call("aggregate_updates", 0)
    /\ UNCHANGED <<config, other, client_models, stopping, pc, train_data, epochs,
                   validation_data, threads, started, val_loss, rounds, stopped,
                   best_before, ckpt_written, hist, saved_weights>>

NextAggregate == CallAggregate

SpecAggregate == InitAggregate /\ [][NextAggregate]_vars

(* ------------- two threads calling on one object (SpecCallers) --------- *)
\* global_training_round takes no lock and keeps no "in progress" flag, so a
\* second thread's call begins whatever the first is doing. The second call is
\* made with one sample for every client, the default epochs=1 and any
\* validation_data; each of its four stages is one step.
InitCallers == Init /\ ~secure_aggregation /\ aggregation_method = "average"

\* The other call begins: distribute_model()
OtherCallRound ==
    /\ rounds < MaxRounds
    /\ other.pc = "idle"
    /\ \E vd \in BOOLEAN :
           other' = [pc |-> "train", client_updates |-> <<>>, validation_data |-> vd]
    /\ client_models' = distribute_model(global_model)
    /\ rounds' = rounds + 1
    /\ UNCHANGED <<config, api, global_model, stopping, call, raised, stopped, global_before,
                   best_before, set_calls, noise_ran, ckpt_written, hist>>

\* The other call's async_train_clients, on the same client models
OtherTrainClients ==
    /\ other.pc = "train"
    /\ \E ends \in [Clients -> {e \in TaskEnds : Joined(e.thread)}] :
        LET done == {i \in Clients : ends[i].thread = "done"} IN
        \E order \in Orders(done) :
            /\ client_models' = [i \in Clients |->
                                    IF ends[i].trained THEN ends[i].weights
                                    ELSE client_models[i]]
            /\ other' = [other EXCEPT
                            !.pc = "aggregate",
                            !.client_updates =
                                [j \in 1..Cardinality(done) |->
                                    Update(ends[order[j]].weights, 1, order[j])]]
    /\ UNCHANGED <<config, api, global_model, stopping, call, observed>>

\* The other call's aggregate_updates
OtherAggregate ==
    /\ other.pc = "aggregate"
    /\ \E noise \in NoiseDraws(other.client_updates) :
        LET r == aggregate_updates(aggregation_method, secure_aggregation,
                                   other.client_updates, noise)
        IN /\ global_model' = IF r.out.set THEN r.out.weights ELSE global_model
           /\ other' = [other EXCEPT
                           !.pc = IF Evaluates(r.out.err, other.validation_data)
                                  THEN "validate" ELSE "idle",
                           !.client_updates = <<>>]
    /\ UNCHANGED <<config, api, client_models, stopping, call, observed>>

\* The other call's evaluate_model and early-stopping branch
OtherValidate ==
    /\ other.pc = "validate"
    /\ \E l \in Losses :
        /\ hist' = Append(hist, l)
        /\ IF Improved(RInt(l), best_loss)
           THEN /\ best_loss' = RInt(l)
                /\ epochs_without_improvement' = 0
                /\ checkpoints' = save_checkpoint(checkpoints, 1, global_model)
                /\ saved_weights' = Recorded(saved_weights, 1, global_model)
           ELSE /\ epochs_without_improvement' = epochs_without_improvement + 1
                /\ UNCHANGED <<best_loss, checkpoints, saved_weights>>
    /\ other' = [other EXCEPT !.pc = "idle"]
    /\ UNCHANGED <<config, models, call, rounds, raised, stopped, global_before,
                   best_before, set_calls, noise_ran, ckpt_written, called, returned>>

NextCallers ==
    \/ CallRound
    \/ TrainClients
    \/ Aggregate
    \/ Validate
    \/ OtherCallRound
    \/ OtherTrainClients
    \/ OtherAggregate
    \/ OtherValidate

SpecCallers == InitCallers /\ [][NextCallers]_vars

(* ------------- checkpoints saved and loaded (SpecCheckpoints) ---------- *)
\* Between rounds the application calls save_checkpoint(epoch) and
\* load_checkpoint(epoch) on the same object. A file is named by the number in
\* "checkpoint_epoch_{epoch}.h5", and distinct numbers give distinct names.
CheckpointEpochs == 1..(MaxEpochs + 1)

\* global_model.load(path) of the Model Capability: the weights become those of
\* the file at the path; without that file the load fails with
\* CheckpointNotFound and the weights stay.
ModelLoad(files, path, weights) ==
    IF path \in DOMAIN files
    THEN [err |-> "none", weights |-> files[path]]
    ELSE [err |-> "CheckpointNotFound", weights |-> weights]

\* Mutant: the file of epoch 1 is loaded whatever epoch is asked for.
load_checkpoint_first(files, epoch, weights) == ModelLoad(files, 1, weights)

\* Mutant: a missing file is replaced by the file of the lowest epoch saved.
load_checkpoint_fallback(files, epoch, weights) ==
    IF epoch \in DOMAIN files \/ DOMAIN files = {}
    THEN ModelLoad(files, epoch, weights)
    ELSE ModelLoad(files, CHOOSE e \in DOMAIN files : \A f \in DOMAIN files : e <= f,
                   weights)

\* load_checkpoint(epoch): global_model.load(".../checkpoint_epoch_{epoch}.h5");
\* an exception of the load is not caught
load_checkpoint(files, epoch, weights) == ModelLoad(files, epoch, weights)

InitCheckpoints ==
    /\ Init
    /\ ~secure_aggregation
    /\ aggregation_method = "average"
    /\ patience = MaxPatience
    /\ client_models = [i \in Clients |-> InitialWeights]

\* global_training_round called between the saves and the loads
CheckpointRound ==
    /\ rounds < MaxCheckpointRounds
    /\ CallRound

\* save_checkpoint(epoch) called by the application
SaveCheckpoint(epoch) ==
    /\ pc = "idle"
    /\ checkpoints' = save_checkpoint(checkpoints, epoch, global_model)
    /\ saved_weights' = Recorded(saved_weights, epoch, global_model)
    /\ called' = Call("save_checkpoint", epoch)
    /\ returned' = None
    /\ raised' = "none"
    /\ UNCHANGED <<config, other, models, best_loss, epochs_without_improvement, call,
                   rounds, stopped, global_before, best_before, set_calls, noise_ran,
                   ckpt_written, hist>>

\* Mutant: a successful load also starts the early stopping afresh.
LoadCheckpointResets(epoch) ==
    /\ pc = "idle"
    /\ LET r == load_checkpoint(checkpoints, epoch, global_model)
       IN /\ global_model' = r.weights
          /\ raised' = r.err
          /\ returned' = IF r.err = "none" THEN None ELSE NoReturn
          /\ best_loss' = IF r.err = "none" THEN Inf ELSE best_loss
          /\ epochs_without_improvement' =
                 IF r.err = "none" THEN 0 ELSE epochs_without_improvement
    /\ global_before' = global_model
    /\ called' = Call("load_checkpoint", epoch)
    /\ UNCHANGED <<config, other, client_models, checkpoints, call, rounds, stopped,
                   best_before, set_calls, noise_ran, ckpt_written, hist, saved_weights>>

\* load_checkpoint(epoch) called by the application
LoadCheckpoint(epoch) ==
    /\ pc = "idle"
    /\ LET r == load_checkpoint(checkpoints, epoch, global_model)
       IN /\ global_model' = r.weights
          /\ raised' = r.err
          /\ returned' = IF r.err = "none" THEN None ELSE NoReturn
    /\ global_before' = global_model
    /\ called' = Call("load_checkpoint", epoch)
    /\ UNCHANGED <<config, other, client_models, stopping, call, rounds, stopped,
                   best_before, set_calls, noise_ran, ckpt_written, hist, saved_weights>>

NextCheckpoints ==
    \/ CheckpointRound
    \/ TrainClients
    \/ Aggregate
    \/ Validate
    \/ \E epoch \in CheckpointEpochs : SaveCheckpoint(epoch)
    \/ \E epoch \in CheckpointEpochs : LoadCheckpoint(epoch)

SpecCheckpoints == InitCheckpoints /\ [][NextCheckpoints]_vars

(* ------------- robust_client_selection (SpecSelection) ----------------- *)
\* A str is a sequence of characters, each given by its code point:
\* "accuracy" (the default), "loss" and "f1".
MetricNames ==
    {<<97, 99, 99, 117, 114, 97, 99, 121>>, <<108, 111, 115, 115>>, <<102, 49>>}

\* zip(a, b): pairs up to the shorter of the two
Zip(a, b) == [j \in 1..Min(Len(a), Len(b)) |-> <<a[j], b[j]>>]

\* One pair put into a list sorted by x[1], largest first, behind the pairs whose
\* key is equal (sorted() is stable, also with reverse=True)
InsertByKey(sorted, pair) ==
    LET before == Cardinality({j \in DOMAIN sorted : sorted[j][2] >= pair[2]})
    IN SubSeq(sorted, 1, before) \o <<pair>> \o SubSeq(sorted, before + 1, Len(sorted))

RECURSIVE SortedByKey(_)
\* sorted(pairs, key=lambda x: x[1], reverse=True)
SortedByKey(pairs) ==
    IF pairs = <<>> THEN <<>>
    ELSE InsertByKey(SortedByKey(SubSeq(pairs, 1, Len(pairs) - 1)), pairs[Len(pairs)])

\* int(len(client_data) * selection_ratio) for the ratio steps / RatioSteps
SelectionCount(n, steps) == (n * steps) \div RatioSteps

\* robust_client_selection: the clients of the first pairs of the sorted zip
robust_client_selection(client_data, performance_metric, steps) ==
    LET sorted_clients == SortedByKey(Zip(client_data, performance_metric))
        upto == Min(Len(sorted_clients), SelectionCount(Len(client_data), steps))
    IN [j \in 1..upto |-> sorted_clients[j][1]]

\* A call of robust_client_selection with its arguments
SelectionCall(client_data, performance_metric, steps) ==
    [op |-> "robust_client_selection", epoch |-> 0, client_data |-> client_data,
     performance_metric |-> performance_metric, steps |-> steps]

InitSelection ==
    /\ Init
    /\ ~secure_aggregation
    /\ aggregation_method = "average"
    /\ patience = MaxPatience
    /\ client_models = [i \in Clients |-> InitialWeights]

\* The application calls robust_client_selection on n clients' data (the data of
\* client j is named j).
CallSelection ==
    /\ pc = "idle"
    /\ called.op = "none"
    /\ \E n \in 0..MaxClientData, metric \in MetricNames, steps \in 0..RatioSteps :
          LET client_data == [j \in 1..n |-> j] IN
          /\ called' = SelectionCall(client_data, metric, steps)
          /\ returned' = robust_client_selection(client_data, metric, steps)
    /\ UNCHANGED <<config, other, models, stopping, call, observed, saved_weights>>

NextSelection == CallSelection

SpecSelection == InitSelection /\ [][NextSelection]_vars

(* ======================= claims about the threads ====================== *)
ValidMethods == {"average", "median", "weighted_average"}
Tasks == 1..NTasks(train_data)
AllStarted == pc = "train" /\ started = NTasks(train_data)
UpdatesOf(i) == {j \in 1..Len(client_updates) : client_updates[j].client = i}
TrainRaised(i) == threads[i] = "train_raised"
TaskFailed(i) == threads[i] \in {"train_raised", "get_weights_raised"}
Ended(i) == threads[i] = "done" \/ TaskFailed(i)
\* every update in the list is the one its task built, untouched
Uncorrupted ==
    \A j \in 1..Len(client_updates) :
        LET i == client_updates[j].client
        IN i \in Tasks /\ client_updates[j] = Update(client_models[i], train_data[i], i)

\* C1 (as stated): when async_train_clients returns, the list holds exactly one
\* update for every task whose train() returned without error, and nothing else.
C1_OneUpdatePerTrainedTask ==
    pc = "aggregate" =>
        /\ \A i \in Tasks : Cardinality(UpdatesOf(i)) = IF TrainRaised(i) THEN 0 ELSE 1
        /\ Len(client_updates) = Cardinality({i \in Tasks : ~TrainRaised(i)})
        /\ Uncorrupted

\* C1 (amended): under every interleaving, when async_train_clients returns, the
\* list holds exactly one update for every task that ran to its end without error
\* (train() and get_weights() both returned), none for any other task, and every
\* update is the one its task built.
C1_OneUpdatePerCompletedTask ==
    pc = "aggregate" =>
        /\ \A i \in Tasks : Cardinality(UpdatesOf(i)) = IF threads[i] = "done" THEN 1 ELSE 0
        /\ Len(client_updates) = Cardinality({i \in Tasks : threads[i] = "done"})
        /\ Uncorrupted

\* Two tasks finished and the thread started second appended first.
C1_Witness ==
    /\ pc = "aggregate"
    /\ Len(client_updates) = 2
    /\ client_updates[1].client = 2
    /\ client_updates[2].client = 1

\* C2: a task that raises contributes no update and does not stop the round: the
\* join returns once every thread has ended, the other tasks' updates are in the
\* list, and a nonempty list that the configured strategy accepts is aggregated
\* without error into one set_weights on the global model, whatever the noise.
C2_FailedTaskIsolated ==
    /\ (AllStarted /\ \A i \in Tasks : Ended(i)) => ENABLED JoinThreads
    /\ (pc = "aggregate" /\ \E i \in Tasks : TaskFailed(i)) =>
          /\ \A i \in Tasks : TaskFailed(i) => UpdatesOf(i) = {}
          /\ \A i \in Tasks : threads[i] = "done" => UpdatesOf(i) # {}
          /\ (/\ client_updates # <<>>
              /\ aggregation_method \in ValidMethods
              /\ ~MissingKey(client_updates))
             => \A noise \in NoiseDraws(client_updates) :
                    LET out == aggregate_updates(aggregation_method, secure_aggregation,
                                                 client_updates, noise).out
                    IN /\ out.err = "none"
                       /\ out.set
                       /\ DOMAIN out.weights = DOMAIN client_updates[1].weights

\* One task raised, the other's update is in the list handed to aggregation.
C2_Witness ==
    /\ pc = "aggregate"
    /\ \E i \in Tasks : TaskFailed(i)
    /\ \E i \in Tasks : threads[i] = "done" /\ UpdatesOf(i) # {}

\* C3: a round that collects no update ends with the empty-update error, the
\* global weights are those from before the round, and neither the noise step,
\* a strategy nor set_weights has run.
C3_NoUsableUpdates ==
    [][ (pc = "aggregate" /\ client_updates = <<>>) =>
            /\ raised' = "ValueError_empty"
            /\ pc' = "idle"
            /\ global_model' = global_before
            /\ set_calls' = 0
            /\ ~noise_ran'
      ]_vars

\* Every client's task was started, none left an update, and the round has ended
\* with the empty-update error.
C3_Witness ==
    /\ pc = "idle"
    /\ started = NClients
    /\ raised = "ValueError_empty"
    /\ global_model = global_before

\* C4: a task whose train() never returns is cut off, so the join returns once
\* every other thread has ended.
C4_HungTaskCutOff ==
    (AllStarted /\ \A i \in Tasks : Ended(i) \/ threads[i] = "hung")
        => ENABLED JoinThreads

\* C5: aggregation begins only when every started task has ended; from then on
\* no task can take a step and nothing is appended to the list.
C5_BarrierBeforeAggregation ==
    /\ pc = "aggregate" =>
          /\ started = NTasks(train_data)
          /\ \A i \in Tasks : Ended(i)
    /\ pc \in {"aggregate", "validate", "idle"} =>
          \A i \in Clients :
              /\ ~ENABLED TrainReturns(i)
              /\ ~ENABLED TrainRaises(i)
              /\ ~ENABLED AppendUpdate(i)
              /\ ~ENABLED GetWeightsRaises(i)

\* Aggregation is about to begin with both tasks ended and an update collected.
C5_Witness ==
    /\ pc = "aggregate"
    /\ started = NClients
    /\ client_updates # <<>>

\* C6: a round calls the global set_weights at most once, with a mapping over all
\* the global model's parameter names; at an empty list, an unsupported method,
\* a key mismatch or zero total samples it is not called.
TotalSamples(updates) == IntSum([j \in 1..Len(updates) |-> updates[j].num_samples])
KeyMismatch(updates) ==
    \E j \in 1..Len(updates) : DOMAIN updates[j].weights # DOMAIN global_before
C6_AtomicSetWeights ==
    /\ set_calls <= 1
    /\ pc = "aggregate" =>
          \A noise \in NoiseDraws(client_updates) :
              LET out == aggregate_updates(aggregation_method, secure_aggregation,
                                           client_updates, noise).out
              IN /\ out.set => DOMAIN out.weights = DOMAIN global_before
                 /\ (\/ client_updates = <<>>
                     \/ aggregation_method \notin ValidMethods
                     \/ KeyMismatch(client_updates)
                     \/ (aggregation_method = "weighted_average"
                         /\ TotalSamples(client_updates) = 0))
                    => ~out.set

(* ==================== claims about a sequence of rounds ================ *)
\* the number of losses at the end of h that did not improve on all before them
RECURSIVE MinOf(_)
MinOf(h) == IF Len(h) = 1 THEN h[1]
            ELSE Min(MinOf(SubSeq(h, 1, Len(h) - 1)), h[Len(h)])
LastImproves(h) == Len(h) = 1 \/ h[Len(h)] < MinOf(SubSeq(h, 1, Len(h) - 1))
RECURSIVE Stalls(_)
Stalls(h) == IF h = <<>> \/ LastImproves(h) THEN 0
             ELSE 1 + Stalls(SubSeq(h, 1, Len(h) - 1))
Validated == val_loss # NaN
RoundOver == pc = "idle" /\ rounds > 0

\* C7: a validated round sets epochs_without_improvement to 0 if its loss is
\* strictly below the best_loss held before it and otherwise adds exactly 1 (an
\* equal loss adds 1); no other step of a round changes the counter.
C7_CounterRule ==
    [][ /\ pc = "validate" =>
              epochs_without_improvement' =
                  IF val_loss'[1] * best_loss[2] < best_loss[1] * val_loss'[2]
                  THEN 0 ELSE epochs_without_improvement + 1
        /\ pc # "validate" => epochs_without_improvement' = epochs_without_improvement
      ]_vars

\* A round whose loss equals best_loss has been counted as a stall.
C7_Witness ==
    /\ RoundOver
    /\ Validated
    /\ val_loss = best_loss
    /\ epochs_without_improvement = 1

\* C8: with patience >= 1 a validated round signals early stopping exactly when it
\* does not improve and brings the run of non-improving validated rounds to
\* patience or more, so the first signal comes with the patience-th stall; the
\* counter is that run's length; losses 0.5, 0.6, 0.7 with patience 2 give
\* Improving, Stalled(1), Stopped.
C8_StopAtPatience ==
    /\ epochs_without_improvement = Stalls(hist)
    /\ (patience >= 1 /\ RoundOver /\ Validated) =>
          /\ stopped <=> Stalls(hist) >= patience
          /\ patience = 2 =>
                /\ hist = <<5>> => epochs_without_improvement = 0 /\ ~stopped
                /\ hist = <<5, 6>> => epochs_without_improvement = 1 /\ ~stopped
                /\ hist = <<5, 6, 7>> => stopped

\* Losses 0.5, 0.6, 0.7 with patience 2: the third round has signalled the stop.
C8_Witness ==
    /\ RoundOver
    /\ patience = 2
    /\ hist = <<5, 6, 7>>
    /\ stopped

\* C9: once early stopping has been signalled no further round runs: nothing is
\* distributed, trained, aggregated, evaluated or saved.
C9_StoppedIsTerminal ==
    [][ stopped =>
            /\ pc' = "idle"
            /\ UNCHANGED <<global_model, client_models, best_loss,
                           epochs_without_improvement, checkpoints, threads,
                           client_updates>>
      ]_vars

\* C10: a round writes a checkpoint exactly when it was validated and its loss is
\* strictly below the best_loss held before it, and the file then holds the
\* global weights as this round's aggregation set them.
C10_CheckpointOnImprovement ==
    RoundOver =>
        /\ ckpt_written <=>
              /\ Validated
              /\ val_loss[1] * best_before[2] < best_before[1] * val_loss[2]
        /\ ckpt_written =>
              /\ epochs \in DOMAIN checkpoints
              /\ checkpoints[epochs] = global_model
              /\ set_calls = 1
        /\ ~ckpt_written => (best_loss = best_before)

\* A second improving round has saved weights that differ from those it began with.
C10_Witness ==
    /\ RoundOver
    /\ rounds >= 2
    /\ ckpt_written
    /\ global_model # global_before
    /\ checkpoints[epochs] = global_model

\* C11: checkpoints are keyed by the round that wrote them and are never
\* overwritten: a validated round leaves every stored checkpoint as it was, and a
\* round that writes one adds one entry under a key of its own, holding the
\* weights of that round.
C11_CheckpointsImmutable ==
    [][ pc = "validate" =>
            /\ \A e \in DOMAIN checkpoints :
                   e \in DOMAIN checkpoints' /\ checkpoints'[e] = checkpoints[e]
            /\ ckpt_written' =>
                   \E e \in DOMAIN checkpoints' \ DOMAIN checkpoints :
                       /\ DOMAIN checkpoints' = DOMAIN checkpoints \cup {e}
                       /\ checkpoints'[e] = global_model
      ]_vars

\* the least loss of a history, +inf for the empty one
BestOf(h) == IF h = <<>> THEN Inf ELSE RInt(MinOf(h))

\* C12: after every step best_loss is the minimum of the validation losses
\* evaluated so far (+inf if there is none); no step raises it, and only the
\* validation of a round changes it.
C12_BestLossIsMinimum ==
    [][ /\ best_loss' = BestOf(hist')
        /\ ~(best_loss[1] * best_loss'[2] < best_loss'[1] * best_loss[2])
        /\ best_loss' # best_loss => (pc = "validate" /\ Len(hist') = Len(hist) + 1)
      ]_vars

\* Three validated rounds: the second improved on the first, the third did not.
C12_Witness ==
    /\ RoundOver
    /\ hist = <<6, 5, 7>>
    /\ best_loss = RInt(5)

(* ==================== claims about the models' weights ================= *)
\* C14: from distribute_model until aggregation begins the global weights are
\* those the round started with, whatever the tasks do and however they end; a
\* step changes them only if it is the round's aggregation calling set_weights.
C14_GlobalUntouchedByTasks ==
    [][ /\ pc' \in {"train", "aggregate"} => global_model' = global_before'
        /\ global_model' # global_model =>
               (pc = "aggregate" /\ set_calls' = set_calls + 1)
      ]_vars

\* The barrier is passed: one task trained its model away from the global weights
\* and appended, another failed, and the global weights are the round's first.
C14_Witness ==
    /\ pc = "aggregate"
    /\ \E i \in Tasks : threads[i] = "done" /\ client_models[i] # global_model
    /\ \E i \in Tasks : TaskFailed(i)
    /\ global_model = global_before

\* C15: the step that distributes leaves every client with the global weights of
\* that moment and the global weights as they were; a later step that changes one
\* client's weights changes neither the global weights nor another client's.
C15_DistributeByValue ==
    [][ /\ (pc = "idle" /\ pc' = "train") =>
               /\ \A i \in Clients : client_models'[i] = global_model
               /\ global_model' = global_model
        /\ \A i \in Clients :
               (pc = "train" /\ client_models'[i] # client_models[i]) =>
                   /\ global_model' = global_model
                   /\ \A j \in Clients \ {i} : client_models'[j] = client_models[j]
      ]_vars

\* After the distribution one client has trained its weights away from the global
\* model's while the other still holds the distributed copy.
C15_Witness ==
    /\ pc = "train"
    /\ \E i, j \in Tasks :
          /\ threads[i] = "trained"
          /\ client_models[i] # global_model
          /\ client_models[j] = global_model

\* C16: the noise step leaves the updates it is given as their tasks built them:
\* whatever noise is drawn, the list handed to aggregate_updates holds, after the
\* call, the weights each update was created with.
C16_SecureAggregationPure ==
    (pc = "aggregate" /\ secure_aggregation /\ client_updates # <<>>) =>
        \A noise \in NoiseDraws(client_updates) :
            LET after == aggregate_updates(aggregation_method, secure_aggregation,
                                           client_updates, noise).updates
            IN /\ after = client_updates
               /\ \A j \in 1..Len(after) :
                      after[j].weights = client_models[after[j].client]

(* ========================= claims about errors ========================= *)
\* C17: a weighted-average aggregation of updates (over the global model's
\* parameter names) whose num_samples sum to 0 ends with an error, without a set_weights call and with the global weights as
\* they were.
C17_ZeroSamplesRaises ==
    [][ (/\ pc = "aggregate"
         /\ aggregation_method = "weighted_average"
         /\ client_updates # <<>>
         /\ ~KeyMismatch(client_updates)
         /\ TotalSamples(client_updates) = 0)
        => /\ raised' # "none"
           /\ set_calls' = set_calls
           /\ global_model' = global_model
      ]_vars

\* C18: a coordinator with an unsupported aggregation method runs no round: no
\* call begins, no client is given weights or trained, no noise is added, and the
\* unsupported-method error is not raised by aggregate_updates.
C18_UnknownMethodRejected ==
    aggregation_method \notin ValidMethods =>
        /\ rounds = 0
        /\ pc = "idle"
        /\ \A i \in Clients : threads[i] = "unstarted"
        /\ ~noise_ran
        /\ raised # "ValueError_method"

\* C19: no coordinator has a patience of 0 or less, and none runs a round.
C19_NonpositivePatienceRejected ==
    patience <= 0 => (rounds = 0 /\ pc = "idle")

\* C20: when some update of the list, at any position, has parameter names other
\* than the global model's at the start of the round, the aggregation ends with
\* an error, without a set_weights call and with the global weights as they were.
C20_KeyMismatchRejected ==
    [][ (/\ pc = "aggregate"
         /\ client_updates # <<>>
         /\ \E j \in 1..Len(client_updates) :
                DOMAIN client_updates[j].weights # DOMAIN global_before)
        => /\ raised' # "none"
           /\ set_calls' = set_calls
           /\ global_model' = global_model
      ]_vars

(* =================== claims about overlapping calls ==================== *)
\* C13: no two rounds on one coordinator are in progress together: while one
\* call is between its distribute_model and the end of its validation, no other
\* call has begun.
C13_RoundsDoNotOverlap ==
    ~(pc # "idle" /\ other.pc # "idle")

(* ================== claims about the aggregation strategies ============ *)
\* a call of aggregate_updates has set the global weights from client_updates
Aggregated == set_calls = 1 /\ client_updates # <<>>
\* the list with the updates at positions a and b exchanged
Exchanged(list, a, b) ==
    [j \in 1..Len(list) |-> IF j = a THEN list[b] ELSE IF j = b THEN list[a] ELSE list[j]]
StrategyOf(method, updates) ==
    CASE method = "average" -> _average_aggregation(updates)
      [] method = "median" -> _median_aggregation(updates)
      [] method = "weighted_average" -> _weighted_average_aggregation(updates)
\* the integer values of one parameter along the list
ValuesOf(key) == [j \in 1..Len(client_updates) |-> client_updates[j].weights[key][1]]
SamplesOf == [j \in 1..Len(client_updates) |-> client_updates[j].num_samples]
Below(vals, x) == Cardinality({j \in DOMAIN vals : vals[j] < x})
Above(vals, x) == Cardinality({j \in DOMAIN vals : vals[j] > x})
\* m = <<p, q>> is the median of vals: the middle value in sorted order, or half
\* the sum of the two middle values
IsMedian(m, vals) ==
    LET n == Len(vals) IN
    IF n % 2 = 1
    THEN \E j \in DOMAIN vals :
            /\ m = <<vals[j], 1>>
            /\ Below(vals, vals[j]) <= (n - 1) \div 2
            /\ Above(vals, vals[j]) <= (n - 1) \div 2
    ELSE \E a, b \in DOMAIN vals :
            /\ Below(vals, vals[a]) <= n \div 2 - 1
            /\ Above(vals, vals[a]) <= n \div 2
            /\ Below(vals, vals[b]) <= n \div 2
            /\ Above(vals, vals[b]) <= n \div 2 - 1
            /\ m[2] > 0
            /\ 2 * m[1] = m[2] * (vals[a] + vals[b])
\* the list holds exactly the values of S, one update each, in some order
HoldsValues(key, S) ==
    /\ Len(client_updates) = Cardinality(S)
    /\ {ValuesOf(key)[j] : j \in 1..Len(client_updates)} = S

\* C21: whichever of the three strategies is configured, exchanging any two
\* updates of the list that was aggregated gives the weights the call has set;
\* every list is aggregated in every order of its updates, so the weights are the
\* same for every permutation of a list.
C21_PermutationInvariant ==
    (Aggregated /\ aggregation_method \in ValidMethods) =>
        \A a, b \in 1..Len(client_updates) :
            StrategyOf(aggregation_method, Exchanged(client_updates, a, b))
                = SetTo(global_model)

\* A list that arrived out of order, with unequal sample counts, was aggregated.
C21_Witness ==
    /\ Aggregated
    /\ aggregation_method = "weighted_average"
    /\ Len(client_updates) = MaxUpdates
    /\ ValuesOf("w")[1] = 100
    /\ ValuesOf("w")[2] = 1
    /\ SamplesOf[1] # SamplesOf[2]

\* C22: the median strategy sets every parameter of the global model to the
\* median of that parameter over the updates (the middle sorted value for an odd
\* count, the mean of the two middle values for an even one); the values
\* 1, 2, 3, 4, 100 in any order give 3.
C22_MedianAggregation ==
    (Aggregated /\ aggregation_method = "median") =>
        /\ DOMAIN global_model = DOMAIN global_before
        /\ \A key \in DOMAIN global_model :
               /\ IsMedian(global_model[key], ValuesOf(key))
               /\ HoldsValues(key, {1, 2, 3, 4, 100}) => global_model[key] = <<3, 1>>

\* The five values arrived with the outlier first and the median is 3.
C22_Witness ==
    /\ Aggregated
    /\ aggregation_method = "median"
    /\ HoldsValues("w", {1, 2, 3, 4, 100})
    /\ ValuesOf("w")[1] = 100
    /\ global_model["w"] = <<3, 1>>

\* C23: the average strategy sets every parameter of the global model, and no
\* other, to the sum of that parameter over the updates divided by their number;
\* the values 1, 2, 3 give 2 and the values 1, 2, 3, 4, 100 give 22.
C23_AverageAggregation ==
    (Aggregated /\ aggregation_method = "average") =>
        /\ DOMAIN global_model = DOMAIN global_before
        /\ \A key \in DOMAIN global_model :
               /\ global_model[key][2] > 0
               /\ global_model[key][1] * Len(client_updates)
                      = global_model[key][2] * IntSum(ValuesOf(key))
               /\ HoldsValues(key, {1, 2, 3}) => global_model[key] = <<2, 1>>
               /\ HoldsValues(key, {1, 2, 3, 4, 100}) => global_model[key] = <<22, 1>>

\* The five values with the outlier were averaged to 22.
C23_Witness ==
    /\ Aggregated
    /\ aggregation_method = "average"
    /\ HoldsValues("w", {1, 2, 3, 4, 100})
    /\ global_model["w"] = <<22, 1>>

\* C24: with a positive total the weighted average sets every parameter to the
\* sum of value * num_samples divided by the sum of num_samples, and when all the
\* updates have the same positive num_samples that is what the average strategy
\* computes from the same list.
C24_WeightedAverage ==
    (Aggregated /\ aggregation_method = "weighted_average" /\ IntSum(SamplesOf) > 0) =>
        /\ \A key \in DOMAIN global_model :
               /\ global_model[key][2] > 0
               /\ global_model[key][1] * IntSum(SamplesOf)
                      = global_model[key][2]
                          * IntSum([j \in 1..Len(client_updates) |->
                                       ValuesOf(key)[j] * SamplesOf[j]])
        /\ (\A j \in 1..Len(client_updates) : SamplesOf[j] = SamplesOf[1]) =>
               _average_aggregation(client_updates) = SetTo(global_model)

\* Three updates with one sample each were aggregated to a mean that is not an
\* integer.
C24_Witness ==
    /\ Aggregated
    /\ aggregation_method = "weighted_average"
    /\ Len(client_updates) = 3
    /\ \A j \in 1..3 : SamplesOf[j] = 1
    /\ global_model["w"][2] = 3

(* ==================== claims about the tasks of a round ================ *)
\* C27: when the tasks of a round have been joined, a task was launched for
\* every client that has a dataset in train_data and for no other; a thread
\* enters train() only from its start, so each such client is trained once; and
\* every task left at most one update, holding that client's weights after
\* training and the length of its own dataset.
C27_OneTaskPerClient ==
    [][ /\ pc' = "aggregate" =>
               /\ \A i \in Clients :
                      (i <= Len(train_data')) <=> (threads'[i] # "unstarted")
               /\ \A i \in Clients :
                      LET mine == {j \in 1..Len(client_updates') :
                                      client_updates'[j].client = i}
                      IN /\ Cardinality(mine) <= 1
                         /\ \A j \in mine :
                                /\ threads'[i] = "done"
                                /\ client_updates'[j].weights = client_models'[i]
                                /\ client_updates'[j].num_samples = train_data'[i]
        /\ \A i \in Clients :
               (threads'[i] = "train" /\ threads[i] # "train") =>
                   (threads[i] = "unstarted" /\ started' = i)
      ]_vars

\* Both clients had datasets of different lengths, both tasks ran and each left
\* its update.
C27_Witness ==
    /\ pc = "aggregate"
    /\ Len(train_data) = NClients
    /\ train_data[1] # train_data[2]
    /\ Len(client_updates) = NClients
    /\ \A j \in 1..NClients :
           client_updates[j].num_samples = train_data[client_updates[j].client]

(* ================= claims about what a round gives back ================ *)
\* the record the round is to return
RoundOutcome(stop, count) ==
    [type |-> "RoundOutcome", stopped |-> stop, aggregatedFrom |-> count]

\* C28: a round that ends without an exception returns a RoundOutcome whose
\* stopped flag tells whether this round signalled early stopping and whose
\* aggregatedFrom is the number of updates it aggregated.
C28_RoundOutcomeReturned ==
    [][ (pc # "idle" /\ pc' = "idle" /\ raised' = "none") =>
            \E count \in 1..NClients :
                /\ pc = "aggregate" => count = Len(client_updates)
                /\ returned' = RoundOutcome(stopped', count)
      ]_vars

\* C29: whenever validation data is given to a round, the global model is
\* evaluated exactly once, after aggregation has applied the new weights, and
\* best_loss, the counter and the checkpoints then follow the early-stopping
\* rule; without validation data none of the three changes.
C29_EvaluatedWheneverGiven ==
    /\ (RoundOver /\ validation_data) =>
          /\ Validated
          /\ set_calls = 1
          /\ best_loss = IF RLess(val_loss, best_before) THEN val_loss ELSE best_before
          /\ ckpt_written <=> RLess(val_loss, best_before)
    /\ (RoundOver /\ ~validation_data) =>
          ~Validated /\ best_loss = best_before /\ ~ckpt_written

\* C29 for the rounds whose aggregation returns: an evaluation is one step of a
\* round that was given validation data, taken once, after the round's one
\* set_weights and on the weights it set; the round then ends with best_loss,
\* the counter and the checkpoint as the early-stopping rule has them. A round
\* without validation data evaluates nothing and changes none of best_loss,
\* the counter and the checkpoints.
C29_EvaluatedOnceAfterAggregation ==
    [][ /\ hist' # hist =>
              /\ pc = "validate" /\ validation_data /\ raised = "none"
              /\ ~Validated /\ Validated'
              /\ set_calls = 1
              /\ global_model' = global_model
              /\ Len(hist') = Len(hist) + 1
              /\ epochs_without_improvement' =
                     IF RLess(val_loss', best_loss) THEN 0
                     ELSE epochs_without_improvement + 1
        /\ (RoundOver' /\ raised' = "none" /\ validation_data') =>
              /\ Validated'
              /\ hist' # hist
              /\ best_loss' = IF RLess(val_loss', best_before') THEN val_loss'
                              ELSE best_before'
              /\ ckpt_written' <=> RLess(val_loss', best_before')
              /\ ckpt_written' => checkpoints'[epochs'] = global_model'
        /\ ~validation_data' =>
              /\ ~Validated'
              /\ UNCHANGED <<best_loss, epochs_without_improvement, checkpoints, hist>>
      ]_vars

\* After a validated round, a second round without validation data has replaced
\* the global weights and left best_loss as the first round set it.
C29_Witness ==
    /\ RoundOver
    /\ rounds = 2
    /\ ~validation_data
    /\ raised = "none"
    /\ hist # <<>>
    /\ best_loss = RInt(hist[1])
    /\ global_model # global_before

C31_ClientModelOwnedByItsTask ==
    [][ /\ (pc = "train" /\ started = 0 /\ started' = 1) =>
              \A j \in Clients : client_models[j] = global_before
        /\ \A i \in Clients :
              /\ (threads[i] = "unstarted" /\ threads'[i] = "train") =>
                     client_models'[i] = global_before
              /\ (pc = "train" /\ client_models'[i] # client_models[i]) =>
                     /\ threads[i] = "train"
                     /\ threads'[i] = "trained"
                     /\ \A j \in Clients \ {i} : threads'[j] = threads[j]
      ]_vars

\* Both tasks run: the first has trained its model away from the round's first
\* weights, the second is still training and its model still holds them.
C31_Witness ==
    /\ pc = "train"
    /\ started = NClients
    /\ threads[1] = "trained"
    /\ client_models[1] # global_before
    /\ threads[2] = "train"
    /\ client_models[2] = global_before

(* ================= claims about the client selection =================== *)
\* C32: robust_client_selection returns exactly floor(len(client_data) *
\* selection_ratio) clients, each an element of client_data and none selected
\* twice, for every number of clients and every ratio in [0, 1].
C32_SelectsFloorOfRatio ==
    called.op = "robust_client_selection" =>
        /\ Len(returned) * RatioSteps <= Len(called.client_data) * called.steps
        /\ (Len(returned) + 1) * RatioSteps > Len(called.client_data) * called.steps
        /\ \A j \in DOMAIN returned :
              \E k \in DOMAIN called.client_data : returned[j] = called.client_data[k]
        /\ \A j, k \in DOMAIN returned : returned[j] = returned[k] => j = k

\* C33: a call of save_checkpoint or load_checkpoint leaves best_loss and
\* epochs_without_improvement as they were, also when the load puts earlier
\* weights back, and save_checkpoint leaves the global weights as they were.
C33_CheckpointsLeaveStoppingState ==
    [][ (pc = "idle" /\ pc' = "idle") =>
            /\ called'.op \in {"save_checkpoint", "load_checkpoint"}
            /\ best_loss' = best_loss
            /\ epochs_without_improvement' = epochs_without_improvement
            /\ called'.op = "save_checkpoint" =>
                   /\ global_model' = global_model
                   /\ checkpoints'[called'.epoch] = global_model
      ]_vars

\* After a validated round a load has put the weights from before the round
\* back, and best_loss is still the loss of that round.
C33_Witness ==
    /\ called.op = "load_checkpoint"
    /\ raised = "none"
    /\ hist # <<>>
    /\ best_loss = RInt(hist[1])
    /\ global_model = InitialWeights
    /\ global_before # InitialWeights

(* ============== claims about the best model checkpointed =============== *)
\* C34: over any sequence of rounds best_loss and the checkpoints change in the
\* same step only, the validation of an improving round, which writes the
\* weights it has just evaluated, with the loss that becomes best_loss, under
\* the round's epochs and touches no other file; so whenever best_loss is finite
\* the checkpoint written last holds the weights whose loss is best_loss.
C34_LastCheckpointIsBest ==
    [][ /\ (best_loss' # best_loss \/ checkpoints' # checkpoints) =>
              /\ pc = "validate"
              /\ best_loss' = val_loss'
              /\ RLess(best_loss', best_loss)
              /\ global_model' = global_model
              /\ epochs \in DOMAIN checkpoints'
              /\ checkpoints'[epochs] = global_model
              /\ \A e \in DOMAIN checkpoints \ {epochs} : checkpoints'[e] = checkpoints[e]
        /\ IsFinite(best_loss') <=> checkpoints' # <<>>
      ]_vars

\* Two improving rounds and then one that did not improve: the file holds the
\* second round's weights, which the third round has replaced in the model.
C34_Witness ==
    /\ RoundOver
    /\ rounds = 3
    /\ Len(hist) = 3
    /\ hist[2] < hist[1]
    /\ hist[3] >= hist[2]
    /\ best_loss = RInt(hist[2])
    /\ checkpoints[epochs] # global_model
    /\ checkpoints[epochs] # InitialWeights

====
